---- MODULE Spec2Model ----
(***************************************************************************)
(* Model of server.py: the CORS proxy / static server of the Purdue        *)
(* Transit PWA.  main() parses the command line and binds a threaded HTTP  *)
(* server; every connection is served by one CORSProxyHandler.             *)
(*                                                                         *)
(* Text is modelled as sequences of tokens (one-character strings, or one  *)
(* string standing for a run of characters that no test in the code can    *)
(* split).  Requests are well-formed HTTP/1.x requests.                    *)
(***************************************************************************)
EXTENDS Integers, Sequences, FiniteSets, TLC

\* ------------------------------------------------------------------ bounds
MaxThreads == 2
MaxTimeLen == 5
MaxParams == 2
MaxValueLen == 3
MaxEntries == 2

\* --------------------------------------------------------------- variables
VARIABLES
    mainPc,                 \* position of main(): start, validate, bind, serving, exited, stopped
    exitCode,               \* -1 while running, else the process exit code
    bound,                  \* TRUE once ThreadedHTTPServer(("", PORT), ...) was constructed
    DEBUG_MOCK_ENABLED,     \* module global
    DEBUG_TIME_OVERRIDE,    \* module global: [some |-> FALSE] is None
    MOCK_ROUTES_AND_STOPS,  \* module globals holding the canned documents
    MOCK_RUNNING_BUSES,
    MOCK_STOP_DETAILS,
    configFile,             \* text of config.js on disk
    conn                    \* one record per handler thread

globals == <<DEBUG_MOCK_ENABLED, DEBUG_TIME_OVERRIDE,
             MOCK_ROUTES_AND_STOPS, MOCK_RUNNING_BUSES, MOCK_STOP_DETAILS>>
mainVars == <<mainPc, exitCode, bound>>
vars == <<mainPc, exitCode, bound, DEBUG_MOCK_ENABLED, DEBUG_TIME_OVERRIDE,
          MOCK_ROUTES_AND_STOPS, MOCK_RUNNING_BUSES, MOCK_STOP_DETAILS,
          configFile, conn>>

Threads == 1..MaxThreads

\* ----------------------------------------------------------- text helpers
SeqsUpTo(S, n) == UNION {[1..k -> S] : k \in 0..n}

StartsWith(s, p) == Len(s) >= Len(p) /\ SubSeq(s, 1, Len(p)) = p

Count(s, x) == Cardinality({i \in 1..Len(s) : s[i] = x})

\* position of the first element of s that lies in S, or 0
FirstIn(s, S) ==
    IF \E i \in 1..Len(s) : s[i] \in S
    THEN CHOOSE i \in 1..Len(s) : s[i] \in S /\ \A j \in 1..(i - 1) : s[j] \notin S
    ELSE 0

\* str.split(sep) for a one-character separator
RECURSIVE split(_, _)
split(s, sep) ==
    LET i == FirstIn(s, {sep})
    IN IF i = 0 THEN <<s>>
       ELSE <<SubSeq(s, 1, i - 1)>> \o split(SubSeq(s, i + 1, Len(s)), sep)

\* ------------------------------------------------------------------ main()
None == [some |-> FALSE, val |-> <<>>]
Some(s) == [some |-> TRUE, val |-> s]

Digits == {"2", "5", "9"}
TimeChars == Digits \cup {"x", ":"}

\* every --time value over TimeChars, and the absent flag
AllTimeArgs == {None} \cup {Some(s) : s \in SeqsUpTo(TimeChars, MaxTimeLen)}

\* the --time values used when the requests are the subject
SampleTimeArgs ==
    {None, Some(<<>>), Some(<<"2", "2", ":", "5", "5">>),
     Some(<<"2", "5", ":", "9", "9">>), Some(<<"x">>)}

\* Python truthiness of DEBUG_TIME_OVERRIDE: not None and not ''
Truthy(t) == t.some /\ Len(t.val) > 0

\* int(s) succeeds (the alphabet has no sign, blank or underscore)
int_ok(s) == Len(s) > 0 /\ \A i \in 1..Len(s) : s[i] \in Digits

\* h, m = t.split(':'); int(h), int(m)  raises
validate_raises(s) ==
    LET parts == split(s, ":")
    IN Len(parts) # 2 \/ ~int_ok(parts[1]) \/ ~int_ok(parts[2])

ParseArgs(TimeArgs) ==
    /\ mainPc = "start"
    /\ \E m \in BOOLEAN, t \in TimeArgs :
          /\ DEBUG_MOCK_ENABLED' = m
          /\ DEBUG_TIME_OVERRIDE' = t
    /\ mainPc' = "validate"
    /\ UNCHANGED <<exitCode, bound, MOCK_ROUTES_AND_STOPS, MOCK_RUNNING_BUSES,
                   MOCK_STOP_DETAILS, configFile, conn>>

ValidateTime ==
    /\ mainPc = "validate"
    /\ IF Truthy(DEBUG_TIME_OVERRIDE) /\ validate_raises(DEBUG_TIME_OVERRIDE.val)
       THEN mainPc' = "exited" /\ exitCode' = 1
       ELSE mainPc' = "bind" /\ exitCode' = exitCode
    /\ UNCHANGED <<bound, globals, configFile, conn>>

BindServer ==
    /\ mainPc = "bind"
    /\ bound' = TRUE
    /\ mainPc' = "serving"
    /\ UNCHANGED <<exitCode, globals, configFile, conn>>

\* KeyboardInterrupt in serve_forever(): daemon threads are abandoned
Interrupt ==
    /\ mainPc = "serving"
    /\ mainPc' = "stopped"
    /\ exitCode' = 0
    /\ UNCHANGED <<bound, globals, configFile, conn>>

\* ------------------------------------------------- BaseHTTPRequestHandler
ACAO == "Access-Control-Allow-Origin: *"
ACAM == "Access-Control-Allow-Methods: GET, POST, OPTIONS"
ACAH == "Access-Control-Allow-Headers: *"
CacheControl == "Cache-Control: no-store"
CT_JSON == "Content-Type: application/json"
CT_JS == "Content-Type: application/javascript"

NoBody == [kind |-> "none", status |-> 0, doc |-> <<>>]
\* json.dumps(document)
JsonDumps(d) == [kind |-> "json", status |-> 0, doc |-> d]
\* json.dumps({'error': True, 'status': code, 'message': ...})
ErrorEnvelope(code) == [kind |-> "error", status |-> code, doc |-> <<>>]
RawBytes(d) == [kind |-> "raw", status |-> 0, doc |-> d]
JsText(d) == [kind |-> "js", status |-> 0, doc |-> d]
HtmlError(code) == [kind |-> "html", status |-> code, doc |-> <<>>]
FileBytes == [kind |-> "file", status |-> 0, doc |-> <<>>]

\* what a handler writes to wfile: a status line with its header block, or
\* a body; ok is FALSE when the write raised because the client was gone
HeadEv(code, headers, ok) ==
    [k |-> "head", status |-> code, headers |-> headers, body |-> NoBody, ok |-> ok]
BodyEv(b) ==
    [k |-> "body", status |-> 0, headers |-> <<>>, body |-> b, ok |-> TRUE]

\* a handler instance: pending status line and header buffer, the writes
\* issued so far, the branch handlers entered, file reads and urlopen calls,
\* whether an exception left the handler, whether the client has gone away,
\* whether the thread is blocked in urlopen
NewHandler ==
    [status |-> 0, hdrs |-> <<>>, out |-> <<>>, calls |-> <<>>, reads |-> 0,
     upstream |-> 0, raised |-> FALSE, gone |-> FALSE, blocked |-> FALSE]

send_response(h, code) ==
    [h EXCEPT !.status = code, !.hdrs = <<"Server", "Date">>]

send_header(h, line) == [h EXCEPT !.hdrs = Append(@, line)]

\* BaseHTTPRequestHandler.end_headers: flush the buffer to wfile
base_end_headers(h) ==
    [h EXCEPT !.out = Append(@, HeadEv(h.status, h.hdrs, ~h.gone)),
              !.status = 0, !.hdrs = <<>>,
              !.raised = h.gone]

end_headers_no_cors(h) == base_end_headers(h)

\* CORSProxyHandler.end_headers
end_headers(h) ==
    base_end_headers(
        send_header(send_header(send_header(send_header(h, ACAO), ACAM), ACAH),
                    CacheControl))

\* wfile.write(body); skipped when an exception is already propagating
write(h, b) == IF h.raised THEN h ELSE [h EXCEPT !.out = Append(@, BodyEv(b))]

\* wfile.write raises: the client closed the connection
client_gone(h) == [h EXCEPT !.gone = TRUE]

enter(h, name) == [h EXCEPT !.calls = Append(@, name)]

\* BaseHTTPRequestHandler.send_error
send_error(h, code, method) ==
    LET h1 == end_headers(
                  send_header(send_header(send_header(send_response(h, code),
                      "Connection: close"), "Content-Type: text/html"),
                      "Content-Length"))
    IN IF method = "HEAD" THEN h1 ELSE write(h1, HtmlError(code))

\* ----------------------------------------------------------------- requests
P_API == <<"/", "a", "p", "i">>
P_API_SLASH == P_API \o <<"/">>
P_CONFIG == <<"/", "c", "o", "n", "f", "i", "g", ".", "j", "s">>
P_CONFIG_Q == P_CONFIG \o <<"?">>

T_ROUTES == "getserviceroutesandstops"
T_BUSES == "getrunningshiftsolutions"
T_STOPS == "getrunningstopdetails"

ParamKeys == {"type", "ts"}
ParamValues == {T_ROUTES, T_BUSES, T_STOPS, "bogus", ""}
Params == [k : ParamKeys, v : ParamValues]

Field(p) == <<p.k, "=">> \o (IF p.v = "" THEN <<>> ELSE <<p.v>>)

RECURSIVE JoinFields(_)
JoinFields(ps) ==
    IF Len(ps) = 0 THEN <<>>
    ELSE IF Len(ps) = 1 THEN Field(ps[1])
    ELSE Field(ps[1]) \o <<"&">> \o JoinFields(Tail(ps))

\* the text after the path: nothing, or '?' and the joined fields
QueryStrings ==
    {<<>>} \cup {<<"?">> \o JoinFields(ps) : ps \in SeqsUpTo(Params, MaxParams) \ {<<>>}}

Methods == {"GET", "OPTIONS", "HEAD", "POST"}

ApiPaths ==
    {P_API_SLASH \o <<"x">> \o q : q \in QueryStrings}
    \cup {P_API_SLASH \o <<"/", "[">> \o q :
             q \in {<<>>, <<"?", "type", "=", T_ROUTES>>}}

\* a percent-encoded null byte in the path
NUL == "%00"

OtherPaths ==
    {P_CONFIG, P_CONFIG_Q \o <<"ts", "=", "bogus">>, P_CONFIG \o <<"x">>,
     P_API, <<"/">>, <<"/", "x">>, <<"/", NUL>>}

Requests == [method : Methods, path : ApiPaths \cup OtherPaths]

\* the requests used when the interleaving of threads is the subject
ThreadRequests ==
    {[method |-> "GET", path |-> P_API_SLASH \o <<"x", "?", "type", "=", T_BUSES>>],
     [method |-> "GET", path |-> P_CONFIG],
     [method |-> "GET", path |-> <<"/">>],
     [method |-> "OPTIONS", path |-> P_API_SLASH \o <<"x">>]}

ConfigRequests ==
    {[method |-> "GET", path |-> P_CONFIG],
     [method |-> "GET", path |-> P_CONFIG_Q \o <<"ts", "=", "bogus">>]}

NoReq == [method |-> "", path |-> <<>>]

\* ------------------------------------------------------- urllib.parse calls
\* urlparse(api_path): error is the ValueError('Invalid IPv6 URL') raised for
\* a netloc with an unbalanced bracket; query is the text after the first '?'
\* (fragments are not modelled)
urlparse(url) ==
    LET hasNetloc == StartsWith(url, <<"/", "/">>)
        rest == IF hasNetloc THEN SubSeq(url, 3, Len(url)) ELSE url
        d == IF hasNetloc THEN FirstIn(rest, {"/", "?"}) ELSE 1
        netloc == IF ~hasNetloc THEN <<>>
                  ELSE IF d = 0 THEN rest ELSE SubSeq(rest, 1, d - 1)
        after == IF ~hasNetloc THEN url
                 ELSE IF d = 0 THEN <<>> ELSE SubSeq(rest, d, Len(rest))
        q == FirstIn(after, {"?"})
    IN [error |-> (Count(netloc, "[") > 0) # (Count(netloc, "]") > 0),
        query |-> IF q = 0 THEN <<>> ELSE SubSeq(after, q + 1, Len(after))]

\* parse_qs(query) with the defaults keep_blank_values=False,
\* strict_parsing=False: the (name, value) pairs kept, in order
RECURSIVE KeepFields(_)
KeepFields(fields) ==
    IF Len(fields) = 0 THEN <<>>
    ELSE LET f == fields[1]
             e == FirstIn(f, {"="})
         IN (IF e = 0 \/ e = Len(f) THEN <<>>
             ELSE <<[name |-> SubSeq(f, 1, e - 1), value |-> SubSeq(f, e + 1, Len(f))]>>)
            \o KeepFields(Tail(fields))

parse_qs(query) == KeepFields(split(query, "&"))

\* query.get('type', [''])[0]
req_type_of(qs) ==
    LET hits == SelectSeq(qs, LAMBDA p : p.name = <<"type">>)
    IN IF Len(hits) = 0 THEN <<>> ELSE hits[1].value

\* ------------------------------------------------------------- config.js
KEY == "CORS_PROXY_URL"
SQ == "'"
DQ == "\""
Quotes == {SQ, DQ}
OtherQuote(q) == IF q = SQ THEN DQ ELSE SQ

\* a string literal value: value characters "u" and quotes of the other kind
ValuesIn(q) == SeqsUpTo({"u", OtherQuote(q)}, MaxValueLen)

\* one assignment of the key, as the pattern expects it (KEY ':' blanks
\* quote) or with a blank before the colon, which JavaScript also accepts
Assignment(colon, ws, q, v) == <<KEY>> \o colon \o ws \o <<q>> \o v \o <<q>>

Assignments ==
    UNION {{Assignment(colon, ws, q, v) :
               colon \in {<<":">>, <<" ", ":">>}, ws \in {<<>>, <<" ">>},
               v \in ValuesIn(q)} : q \in Quotes}

RECURSIVE Flatten(_)
Flatten(ss) == IF Len(ss) = 0 THEN <<>> ELSE ss[1] \o Flatten(Tail(ss))

\* files of at most MaxEntries entries (assignments of the key, other text
\* "x"), at least one of them an assignment
AllConfigFiles ==
    {Flatten(es) : es \in {e \in SeqsUpTo(Assignments \cup {<<"x">>}, MaxEntries) :
                              \E i \in 1..Len(e) : e[i] \in Assignments}}

SampleConfigFiles ==
    {<<"x", KEY, ":", " ", SQ, "u", SQ>>,
     <<KEY, ":", " ", DQ, "u", SQ, "u", DQ>>,
     <<KEY, " ", ":", " ", SQ, "u", SQ>>}

\* end of the match of  CORS_PROXY_URL:\s*['"][^'"]*['"]  at the start of s,
\* or 0 when the pattern does not match there
MatchEnd(s) ==
    IF ~StartsWith(s, <<KEY, ":">>) THEN 0
    ELSE LET after == SubSeq(s, 3, Len(s))
             j == IF \E i \in 1..Len(after) : after[i] # " "
                  THEN CHOOSE i \in 1..Len(after) :
                          after[i] # " " /\ \A k \in 1..(i - 1) : after[k] = " "
                  ELSE 0
         IN IF j = 0 \/ after[j] \notin Quotes THEN 0
            ELSE LET tail == SubSeq(after, j + 1, Len(after))
                     c == FirstIn(tail, Quotes)
                 IN IF c = 0 THEN 0 ELSE 2 + j + c

Replacement == <<KEY, ":", " ", SQ, SQ>>

\* re.sub(pattern, "CORS_PROXY_URL: ''", config_content)
RECURSIVE re_sub(_)
re_sub(s) ==
    IF Len(s) = 0 THEN <<>>
    ELSE LET e == MatchEnd(s)
         IN IF e > 0 THEN Replacement \o re_sub(SubSeq(s, e + 1, Len(s)))
            ELSE <<s[1]>> \o re_sub(Tail(s))

TIME_INJECTION == "window.DEBUG_TIME_OVERRIDE ="
MOCK_INJECTION == "window.DEBUG_MOCK_ENABLED = true;"

\* ---------------------------------------------------------------- upstream
UpstreamFailures ==
    {"dns_failure", "connection_refused", "connect_timeout", "send_timeout",
     "response_timeout", "read_timeout", "connection_reset", "bad_url"}

UpstreamOutcomes ==
    {[kind |-> "ok", code |-> c, body |-> b] : c \in {200, 201}, b \in {<<>>, <<"b1">>}}
    \cup {[kind |-> "http_error", code |-> c, body |-> <<>>] : c \in {304, 404, 503}}
    \cup {[kind |-> k, code |-> 0, body |-> <<>>] : k \in UpstreamFailures}

NoOutcome == [kind |-> "", code |-> 0, body |-> <<>>]

\* the classes of the exception that urlopen(...) / resp.read() raises:
\* do_open wraps the OSError of connecting and sending in URLError, and lets
\* the errors of getresponse() and of read() through unwrapped
ExceptionClasses(o) ==
    CASE o.kind = "ok" -> {}
      [] o.kind = "http_error" -> {"HTTPError", "URLError", "OSError", "Exception"}
      [] o.kind \in {"dns_failure", "connection_refused", "connect_timeout",
                     "send_timeout"} -> {"URLError", "OSError", "Exception"}
      [] o.kind \in {"response_timeout", "read_timeout", "connection_reset"} ->
             {"OSError", "Exception"}
      [] OTHER -> {"Exception"}

PostFailures == {"none", "write", "log"}
\* what the file system holds for a path; opening a path with a null byte
\* raises ValueError
StaticOutcomes(path) ==
    IF Count(path, NUL) > 0 THEN {"raises"} ELSE {"found", "missing"}

NoInp == [static |-> "", readable |-> TRUE, postFail |-> "none", upstream |-> NoOutcome]

\* --------------------------------------------------------- CORSProxyHandler
do_OPTIONS(h) ==
    end_headers(
        send_header(send_header(send_header(
            send_response(enter(h, "do_OPTIONS"), 200), ACAO), ACAM), ACAH))

EmptySuccess == <<"status: 200", "data: []">>

serve_mock_response(h0, api_path) ==
    LET h == enter(h0, "serve_mock_response")
        parsed == urlparse(api_path)
        req_type == req_type_of(parse_qs(parsed.query))
        mock_data ==
            IF req_type = <<T_ROUTES>> THEN MOCK_ROUTES_AND_STOPS
            ELSE IF req_type = <<T_BUSES>> THEN MOCK_RUNNING_BUSES
            ELSE IF req_type = <<T_STOPS>> THEN MOCK_STOP_DETAILS
            ELSE EmptySuccess
    IN IF parsed.error THEN [h EXCEPT !.raised = TRUE]
       ELSE write(end_headers(send_header(send_response(h, 200), CT_JSON)),
                  JsonDumps(mock_data))

\* proxy_api_request up to the blocking urlopen(req, timeout=30, ...)
proxy_api_request(h0, path) ==
    LET h == enter(h0, "proxy_api_request")
        api_path == SubSeq(path, 5, Len(path))
    IN IF DEBUG_MOCK_ENABLED THEN serve_mock_response(h, api_path)
       ELSE [h EXCEPT !.blocked = TRUE, !.upstream = @ + 1]

proxy_error_response(h, code) ==
    write(end_headers(send_header(send_response(h, code), CT_JSON)),
          ErrorEnvelope(code))

\* proxy_api_request from the return of urlopen / resp.read() on: the body
\* of the with block and the three except clauses, in their order
proxy_api_response(h0, o, postFail) ==
    LET h == [h0 EXCEPT !.blocked = FALSE]
        exc == ExceptionClasses(o)
        sent == end_headers(send_header(send_response(h, 200), CT_JSON))
    IN IF exc = {} THEN
           CASE postFail = "none" -> write(sent, RawBytes(o.body))
             [] postFail = "write" -> proxy_error_response(client_gone(sent), 500)
             [] OTHER -> proxy_error_response(write(sent, RawBytes(o.body)), 500)
       ELSE IF "HTTPError" \in exc THEN proxy_error_response(h, o.code)
       ELSE IF "URLError" \in exc THEN proxy_error_response(h, 502)
       ELSE proxy_error_response(h, 500)

serve_local_config(h0, readable, postFail) ==
    LET h == [enter(h0, "serve_local_config") EXCEPT !.reads = @ + 1]
        modified_config == re_sub(configFile)
        time_injection ==
            IF Truthy(DEBUG_TIME_OVERRIDE)
            THEN <<TIME_INJECTION>> \o DEBUG_TIME_OVERRIDE.val ELSE <<>>
        debug_injection ==
            time_injection \o (IF DEBUG_MOCK_ENABLED THEN <<MOCK_INJECTION>> ELSE <<>>)
        content ==
            IF Len(debug_injection) > 0
            THEN debug_injection \o <<"\n">> \o modified_config
            ELSE modified_config
        sent == end_headers(send_header(send_response(h, 200), CT_JS))
        failed(hh) == end_headers(send_response(hh, 500))
    IN IF ~readable THEN failed(h)
       ELSE CASE postFail = "none" -> write(sent, JsText(content))
              [] postFail = "write" -> failed(client_gone(sent))
              [] OTHER -> failed(write(sent, JsText(content)))

\* SimpleHTTPRequestHandler.do_GET / do_HEAD: the file is sent, or 404, or
\* translating and opening the path raises (e.g. an embedded null byte)
simple_http(h0, method, outcome) ==
    LET h == [enter(h0, "SimpleHTTPRequestHandler") EXCEPT !.reads = @ + 1]
    IN CASE outcome = "found" ->
              LET sent == end_headers(send_header(send_header(
                              send_response(h, 200), "Content-type"), "Content-Length"))
              IN IF method = "HEAD" THEN sent ELSE write(sent, FileBytes)
         [] outcome = "missing" -> send_error(h, 404, method)
         [] OTHER -> [h EXCEPT !.raised = TRUE]

do_GET_branch_exact(path) ==
    IF StartsWith(path, P_API_SLASH) THEN "proxy_api_request"
    ELSE IF path = P_CONFIG THEN "serve_local_config"
    ELSE "static"

\* the branch do_GET takes for self.path
do_GET_branch(path) ==
    IF StartsWith(path, P_API_SLASH) THEN "proxy_api_request"
    ELSE IF path = P_CONFIG \/ StartsWith(path, P_CONFIG_Q) THEN "serve_local_config"
    ELSE "static"

do_GET(h, path, inp) ==
    LET b == do_GET_branch(path)
    IN CASE b = "proxy_api_request" -> proxy_api_request(h, path)
         [] b = "serve_local_config" -> serve_local_config(h, inp.readable, inp.postFail)
         [] OTHER -> [simple_http(h, "GET", inp.static) EXCEPT !.raised = FALSE]

\* BaseHTTPRequestHandler.handle_one_request: 'do_' + command, 501 when the
\* class has no such method (it has do_OPTIONS, do_GET and the inherited do_HEAD)
handle_one_request(h, req, inp) ==
    CASE req.method = "OPTIONS" -> do_OPTIONS(h)
      [] req.method = "GET" -> do_GET(h, req.path, inp)
      [] req.method = "HEAD" -> simple_http(h, "HEAD", inp.static)
      [] OTHER -> send_error(h, 501, req.method)

\* the environment's part in handling req: whether config.js can be read and
\* whether a statement after end_headers raises; what the file system holds
InputsFor(req) ==
    LET static == {[NoInp EXCEPT !.static = s] : s \in StaticOutcomes(req.path)}
    IN CASE req.method = "HEAD" -> static
         [] req.method = "GET" /\ do_GET_branch(req.path) = "static" -> static
         [] req.method = "GET" /\ do_GET_branch(req.path) = "serve_local_config" ->
                {[NoInp EXCEPT !.readable = FALSE]}
                \cup {[NoInp EXCEPT !.postFail = f] : f \in PostFailures}
         [] OTHER -> {NoInp}

\* ------------------------------------------------------------------ threads
Idle == [pc |-> "idle", req |-> NoReq, inp |-> NoInp, h |-> NewHandler]

\* ThreadingMixIn.process_request: a thread per accepted connection
Accept(t, Reqs) ==
    /\ mainPc = "serving"
    /\ conn[t].pc = "idle"
    /\ \E r \in Reqs : conn' = [conn EXCEPT ![t] = [Idle EXCEPT !.pc = "handling", !.req = r]]
    /\ UNCHANGED <<mainVars, globals, configFile>>

HandleConn(t) ==
    /\ mainPc = "serving"
    /\ conn[t].pc = "handling"
    /\ \E inp \in InputsFor(conn[t].req) :
          LET h == handle_one_request(NewHandler, conn[t].req, inp)
          IN conn' = [conn EXCEPT ![t] =
                        [pc |-> IF h.blocked THEN "upstream" ELSE "done",
                         req |-> conn[t].req, inp |-> inp, h |-> h]]

HandleWritesGlobal(t) ==
    /\ HandleConn(t)
    /\ DEBUG_MOCK_ENABLED' = ~DEBUG_MOCK_ENABLED
    /\ UNCHANGED <<mainVars, DEBUG_TIME_OVERRIDE, MOCK_ROUTES_AND_STOPS,
                   MOCK_RUNNING_BUSES, MOCK_STOP_DETAILS, configFile>>

Handle(t) ==
    /\ HandleConn(t)
    /\ UNCHANGED <<mainVars, globals, configFile>>

UpstreamReturn(t) ==
    /\ mainPc = "serving"
    /\ conn[t].pc = "upstream"
    /\ \E o \in UpstreamOutcomes :
          \E f \in (IF o.kind = "ok" THEN PostFailures ELSE {"none"}) :
             conn' = [conn EXCEPT ![t] =
                        [pc |-> "done", req |-> conn[t].req,
                         inp |-> [NoInp EXCEPT !.upstream = o, !.postFail = f],
                         h |-> proxy_api_response(conn[t].h, o, f)]]
    /\ UNCHANGED <<mainVars, globals, configFile>>

\* the handler returns and the connection is closed
Close(t) ==
    /\ mainPc = "serving"
    /\ conn[t].pc = "done"
    /\ conn' = [conn EXCEPT ![t] = Idle]
    /\ UNCHANGED <<mainVars, globals, configFile>>

\* ----------------------------------------------------------- specifications
ROUTES_DOC == <<"status: 200", "data: routes and stops">>
BUSES_DOC == <<"status: 200", "data: running buses">>
STOPS_DOC == <<"status: 200", "data: stop details">>

InitWith(Files) ==
    /\ mainPc = "start"
    /\ exitCode = -1
    /\ bound = FALSE
    /\ DEBUG_MOCK_ENABLED = FALSE
    /\ DEBUG_TIME_OVERRIDE = None
    /\ MOCK_ROUTES_AND_STOPS = ROUTES_DOC
    /\ MOCK_RUNNING_BUSES = BUSES_DOC
    /\ MOCK_STOP_DETAILS = STOPS_DOC
    /\ configFile \in Files
    /\ conn = [t \in Threads |-> Idle]

Init == InitWith(SampleConfigFiles)

\* one handler thread, every request
Start == ParseArgs(SampleTimeArgs)
AcceptOne == Accept(1, Requests)
HandleOne == Handle(1)
UpstreamReturnOne == UpstreamReturn(1)
CloseOne == Close(1)

Next ==
    \/ Start
    \/ ValidateTime
    \/ BindServer
    \/ Interrupt
    \/ AcceptOne
    \/ HandleOne
    \/ UpstreamReturnOne
    \/ CloseOne

Spec == Init /\ [][Next]_vars

\* MaxThreads concurrent handler threads
AcceptAny == \E t \in Threads : Accept(t, ThreadRequests)
HandleAny == \E t \in Threads : Handle(t)
UpstreamReturnAny == \E t \in Threads : UpstreamReturn(t)
CloseAny == \E t \in Threads : Close(t)

NextThreads ==
    \/ Start
    \/ ValidateTime
    \/ BindServer
    \/ Interrupt
    \/ AcceptAny
    \/ HandleAny
    \/ UpstreamReturnAny
    \/ CloseAny

SpecThreads == Init /\ [][NextThreads]_vars

\* the config handler over every config.js
InitConfig == InitWith(AllConfigFiles)
StartConfig == ParseArgs({None, Some(<<"2", "2", ":", "5", "5">>)})
AcceptConfig == Accept(1, ConfigRequests)

NextConfig ==
    \/ StartConfig
    \/ ValidateTime
    \/ BindServer
    \/ AcceptConfig
    \/ HandleOne
    \/ CloseOne

SpecConfig == InitConfig /\ [][NextConfig]_vars

\* startup over every --time value
StartAny == ParseArgs(AllTimeArgs)

NextStartup ==
    \/ StartAny
    \/ ValidateTime
    \/ BindServer
    \/ Interrupt

SpecStartup == Init /\ [][NextStartup]_vars

\* ------------------------------------------------------------- properties
Heads(h) == SelectSeq(h.out, LAMBDA e : e.k = "head")
Bodies(h) == SelectSeq(h.out, LAMBDA e : e.k = "body")
Answered(t) == conn[t].pc = "done"
IsApi(path) == StartsWith(path, P_API_SLASH)
IsConfig(path) == path = P_CONFIG \/ StartsWith(path, P_CONFIG_Q)
TopBranches ==
    {"do_OPTIONS", "proxy_api_request", "serve_local_config", "SimpleHTTPRequestHandler"}
BranchesOf(h) == {h.calls[i] : i \in 1..Len(h.calls)} \cap TopBranches

\* C1: every status line and header block written for any request, on any
\* outcome, carries the three CORS headers and Cache-Control: no-store.
C1_CorsOnEveryResponse ==
    \A t \in Threads : \A i \in 1..Len(conn[t].h.out) :
        LET e == conn[t].h.out[i]
        IN e.k = "head" =>
              \A x \in {ACAO, ACAM, ACAH, CacheControl} : Count(e.headers, x) >= 1

\* an error response (upstream unreachable, 502) was sent with the headers
C1_Witness ==
    \E t \in Threads :
        /\ Answered(t)
        /\ conn[t].inp.upstream.kind = "connection_refused"
        /\ Len(Heads(conn[t].h)) = 1
        /\ Heads(conn[t].h)[1].status = 502
        /\ Count(Heads(conn[t].h)[1].headers, CacheControl) = 1

\* C2: a handled request has produced exactly one status line and header
\* block, on every success and failure path: never two, never none.
C2_ExactlyOneResponse ==
    \A t \in Threads : Answered(t) => Len(Heads(conn[t].h)) = 1

Preflight(h) ==
    /\ Len(h.out) = 1
    /\ h.out[1].k = "head"
    /\ h.out[1].status = 200
    /\ h.upstream = 0
    /\ h.reads = 0

GetBranch(path) ==
    IF IsApi(path) THEN "proxy_api_request"
    ELSE IF IsConfig(path) THEN "serve_local_config"
    ELSE "SimpleHTTPRequestHandler"

\* C3 as stated: every request enters exactly one of the four branches:
\* OPTIONS the preflight (200, empty body, no upstream call, no file read),
\* any other request the branch its path selects.
C3_FourBranchesAnyMethod ==
    \A t \in Threads : conn[t].pc \in {"upstream", "done"} =>
        LET r == conn[t].req
            h == conn[t].h
        IN /\ Cardinality(BranchesOf(h)) = 1
           /\ r.method = "OPTIONS" => BranchesOf(h) = {"do_OPTIONS"} /\ Preflight(h)
           /\ r.method # "OPTIONS" => BranchesOf(h) = {GetBranch(r.path)}

\* C3 amended: OPTIONS is the preflight; a GET enters the branch its path
\* selects (/api/ first, then /config.js or /config.js?, else static file);
\* a HEAD is served as a static file whatever its path; any other method is
\* answered 501 and enters no branch.  No request enters two branches.
C3_DispatchByMethodThenPath ==
    \A t \in Threads : conn[t].pc \in {"upstream", "done"} =>
        LET r == conn[t].req
            h == conn[t].h
        IN /\ Cardinality(BranchesOf(h)) <= 1
           /\ r.method = "OPTIONS" => BranchesOf(h) = {"do_OPTIONS"} /\ Preflight(h)
           /\ r.method = "GET" => BranchesOf(h) = {GetBranch(r.path)}
           /\ r.method = "HEAD" => BranchesOf(h) = {"SimpleHTTPRequestHandler"}
           /\ r.method \notin {"OPTIONS", "GET", "HEAD"} =>
                 /\ BranchesOf(h) = {}
                 /\ Len(Heads(h)) = 1
                 /\ Heads(h)[1].status = 501

\* GET /config.js?... was served by the config handler and by it alone
C3_Witness ==
    \E t \in Threads :
        /\ Answered(t)
        /\ conn[t].req.method = "GET"
        /\ StartsWith(conn[t].req.path, P_CONFIG_Q)
        /\ conn[t].h.calls = <<"serve_local_config">>

\* the value of the first 'type' field of the request's query string, empty
\* when there is none
FirstTypeParameter(path) ==
    LET q == FirstIn(path, {"?"})
        fields == IF q = 0 THEN <<>> ELSE split(SubSeq(path, q + 1, Len(path)), "&")
        typed == SelectSeq(fields, LAMBDA f : Len(f) >= 2 /\ f[1] = "type" /\ f[2] = "=")
    IN IF Len(typed) = 0 THEN <<>> ELSE SubSeq(typed[1], 3, Len(typed[1]))

MockDocumentFor(type) ==
    IF type = <<T_ROUTES>> THEN ROUTES_DOC
    ELSE IF type = <<T_BUSES>> THEN BUSES_DOC
    ELSE IF type = <<T_STOPS>> THEN STOPS_DOC
    ELSE EmptySuccess

\* C4: in mock mode every GET /api/... is answered 200 application/json
\* without an upstream call, with the document its first 'type' parameter
\* names, or the empty success envelope for any other or absent value.
C4_MockAnswersEveryApiGet ==
    \A t \in Threads :
        (/\ DEBUG_MOCK_ENABLED
         /\ Answered(t)
         /\ conn[t].req.method = "GET"
         /\ IsApi(conn[t].req.path)) =>
            LET h == conn[t].h
            IN /\ h.upstream = 0
               /\ Len(h.out) = 2
               /\ h.out[1].k = "head"
               /\ h.out[1].status = 200
               /\ Count(h.out[1].headers, CT_JSON) = 1
               /\ h.out[2].body =
                     JsonDumps(MockDocumentFor(FirstTypeParameter(conn[t].req.path)))

NoHttpResponse ==
    {"dns_failure", "connection_refused", "connect_timeout", "send_timeout",
     "response_timeout", "connection_reset"}

ExpectedStatus(o) ==
    CASE o.kind = "ok" -> 200
      [] o.kind = "http_error" -> o.code
      [] o.kind \in NoHttpResponse -> 502
      [] OTHER -> 500

ExpectedBody(o) ==
    IF o.kind = "ok" THEN RawBytes(o.body) ELSE ErrorEnvelope(ExpectedStatus(o))

\* C5: in live mode the answer to GET /api/... follows the outcome of the one
\* upstream call: success 200 with the upstream bytes, HTTP error N status N
\* with the error envelope, a network failure without HTTP response 502, any
\* other failure 500; the upstream is called at most once.
C5_StatusFollowsUpstreamOutcome ==
    \A t \in Threads :
        (/\ ~DEBUG_MOCK_ENABLED
         /\ Answered(t)
         /\ conn[t].req.method = "GET"
         /\ IsApi(conn[t].req.path)) =>
            LET h == conn[t].h
                o == conn[t].inp.upstream
            IN /\ h.upstream <= 1
               /\ Len(Heads(h)) >= 1
               /\ Heads(h)[1].status = ExpectedStatus(o)
               /\ conn[t].inp.postFail = "none" =>
                     /\ Len(Bodies(h)) = 1
                     /\ Bodies(h)[1].body = ExpectedBody(o)

Timeouts == {"connect_timeout", "send_timeout", "response_timeout", "read_timeout"}

\* C6: a live request whose upstream call timed out, at whatever stage, is
\* answered 502 with the 502 error envelope.
C6_TimeoutIs502 ==
    \A t \in Threads :
        (Answered(t) /\ conn[t].inp.upstream.kind \in Timeouts) =>
            /\ Len(Heads(conn[t].h)) = 1
            /\ Heads(conn[t].h)[1].status = 502
            /\ Bodies(conn[t].h) = <<BodyEv(ErrorEnvelope(502))>>

\* the first position from i on that holds no blank
SkipBlanks(s, i) ==
    IF \E j \in i..Len(s) : s[j] # " "
    THEN CHOOSE j \in i..Len(s) : s[j] # " " /\ \A k \in i..(j - 1) : s[k] = " "
    ELSE Len(s) + 1

\* the text assigns the key an empty string literal
KeyAssignedEmpty(doc) ==
    \E i \in 1..Len(doc) :
        /\ doc[i] = KEY
        /\ LET c == SkipBlanks(doc, i + 1)
               q == SkipBlanks(doc, c + 1)
           IN /\ q + 1 <= Len(doc)
              /\ doc[c] = ":"
              /\ doc[q] \in Quotes
              /\ doc[q + 1] = doc[q]

\* C7: a 200 answer of the config handler holds the key assigned the empty
\* string and no character of an original value of the key.
C7_ProxyUrlCleared ==
    \A t \in Threads : \A i \in 1..Len(conn[t].h.out) :
        LET e == conn[t].h.out[i]
        IN (Answered(t) /\ e.k = "body" /\ e.body.kind = "js") =>
              /\ KeyAssignedEmpty(e.body.doc)
              /\ Count(e.body.doc, "u") = 0

DigitValue(c) == CASE c = "2" -> 2 [] c = "5" -> 5 [] c = "9" -> 9 [] OTHER -> 0

\* a time of day written HH:MM
IsHHMM(s) ==
    /\ Len(s) = 5
    /\ s[3] = ":"
    /\ \A i \in {1, 2, 4, 5} : s[i] \in Digits
    /\ 10 * DigitValue(s[1]) + DigitValue(s[2]) <= 23
    /\ 10 * DigitValue(s[4]) + DigitValue(s[5]) <= 59

\* C8: once validation is over, a --time value that is not an HH:MM time has
\* made the process exit non-zero, and the socket is never bound with it.
C8_InvalidTimeExitsBeforeBind ==
    (mainPc \notin {"start", "validate"}
       /\ DEBUG_TIME_OVERRIDE.some /\ ~IsHHMM(DEBUG_TIME_OVERRIDE.val)) =>
          /\ mainPc = "exited"
          /\ exitCode # 0
          /\ ~bound

SameAnswers ==
    \A t1, t2 \in Threads :
        (/\ Answered(t1) /\ Answered(t2)
         /\ conn[t1].req = conn[t2].req
         /\ conn[t1].inp = conn[t2].inp) => conn[t1].h = conn[t2].h

\* C9: once the server is serving no step writes the mock flag, the time
\* override or the mock documents, whatever the interleaving of the handler
\* threads, and two requests that are equal and meet the same environment
\* get the same answer.
C9_GlobalsReadOnly ==
    [][(mainPc = "serving" => globals' = globals) /\ SameAnswers']_vars

\* two threads are in flight at once: one answered, one blocked in urlopen
C9_Witness ==
    \E t1, t2 \in Threads :
        /\ t1 # t2
        /\ conn[t1].pc = "done"
        /\ conn[t2].pc = "upstream"
        /\ mainPc = "serving"

\* C10: in every response each CORS header and Cache-Control: no-store occurs
\* exactly once, being added by end_headers alone.
C10_CorsHeadersOnce ==
    \A t \in Threads : \A i \in 1..Len(conn[t].h.out) :
        LET e == conn[t].h.out[i]
        IN e.k = "head" =>
              \A x \in {ACAO, ACAM, ACAH, CacheControl} : Count(e.headers, x) = 1

====
